---- MODULE Spec2Model ----
(***************************************************************************)
(* Model of the SIR simulator core of src/sir_model_py.py:                  *)
(*   sir_model(N, I0, R0, beta, gamma, timesteps)                           *)
(*   simulate_intervention(N, I0, R0, beta_before, beta_after,              *)
(*                         intervention_time, gamma, timesteps)             *)
(*                                                                          *)
(* Both functions are run on one parameter record, sir_model first and      *)
(* simulate_intervention after it (the core is synchronous and the two      *)
(* calls share no state), each as a small state machine: the call (array    *)
(* allocation and initial state), one action per iteration of the for loop, *)
(* and the construction of the returned DataFrame.                          *)
(*                                                                          *)
(* Numbers.  The arrays hold IEEE doubles.  A value is modelled as a pair   *)
(* <<n, d>>: a reduced fraction n/d with d > 0 when it is finite, and       *)
(* <<1,0>>, <<-1,0>>, <<0,0>> for +Inf, -Inf and NaN.  The non-finite cases *)
(* follow IEEE 754 as numpy computes them with its default error state (a   *)
(* RuntimeWarning, no exception).  The sign of zero is not kept: the only   *)
(* divisor is float(N) with N an int, so it never decides a result.         *)
(*                                                                          *)
(* Dashboard.  SpecDash adds the two delegating functions of                *)
(* src/dashboard.py, run_sir_model and run_intervention_model, called by    *)
(* the script with the record its sliders build.  The outcome of the        *)
(* Rscript probe and of the R run are choices of the environment; the R     *)
(* implementation's own series is an opaque value.                          *)
(*                                                                          *)
(* Rounding.  The variable arith fixes how a finite result is stored.       *)
(* Under Spec it is "exact": no rounding, the properties stated of exact    *)
(* arithmetic are checked there.  Under SpecFloat it is "rounded": every    *)
(* operation rounds its result to the nearest value with Precision          *)
(* significant bits, ties to even, as a double does with 53 bits (the       *)
(* exponent range is not bounded).                                          *)
(***************************************************************************)
EXTENDS Integers, Sequences, FiniteSets, TLC

\* Largest population drawn (N ranges over 0..MaxN).
MaxN == 2

\* Largest number of time steps drawn (timesteps ranges over -1..MaxT).
MaxT == 3

\* Significant bits of a stored value under rounded arithmetic (53 in a
\* double, scaled down)
Precision == 6

\* Largest population and number of time steps drawn under SpecFloat
FloatMaxN == 3
FloatMaxT == 4

\* "exact" or "rounded": see the head of the module
VARIABLE arith

--------------------------------------------------------------------------
\* Number domain

Abs(x) == IF x < 0 THEN -x ELSE x

Sign(x) == IF x < 0 THEN -1 ELSE IF x > 0 THEN 1 ELSE 0

RECURSIVE GCD(_, _)
GCD(a, b) == IF b = 0 THEN a ELSE GCD(b, a % b)

\* The double n/d (d may be negative or zero), in canonical form.
Norm(n, d) ==
    IF d = 0 THEN <<Sign(n), 0>>
    ELSE LET g == GCD(Abs(n), Abs(d))
             s == Sign(d)
         IN  <<(s * n) \div g, (s * d) \div g>>

RECURSIVE Pow2(_)
Pow2(k) == IF k = 0 THEN 1 ELSE 2 * Pow2(k - 1)

\* The positive fraction n/d rounded to the nearest value with P significant
\* bits, ties to the even significand
RECURSIVE RoundMagnitude(_, _, _)
RoundMagnitude(n, d, P) ==
    IF n >= d * Pow2(P)
    THEN LET r == RoundMagnitude(n, 2 * d, P) IN Norm(2 * r[1], r[2])
    ELSE IF n < d * Pow2(P - 1)
    THEN LET r == RoundMagnitude(2 * n, d, P) IN Norm(r[1], 2 * r[2])
    ELSE LET m == n \div d
             rem == n - m * d
         IN  IF 2 * rem > d \/ (2 * rem = d /\ m % 2 = 1)
             THEN <<m + 1, 1>> ELSE <<m, 1>>

\* A finite result as the array stores it
Fl(x) ==
    IF arith = "exact" \/ x[1] = 0 THEN x
    ELSE LET r == RoundMagnitude(Abs(x[1]), x[2], Precision)
         IN  <<Sign(x[1]) * r[1], r[2]>>

NaN == <<0, 0>>
PosInf == <<1, 0>>
NegInf == <<-1, 0>>
Zero == <<0, 1>>

\* float(k) of a Python int k
FromInt(k) == <<k, 1>>

IsFinite(x) == x[2] # 0
IsNaN(x) == x = NaN

\* x * y on doubles
Mul(x, y) ==
    IF IsFinite(x) /\ IsFinite(y)
    THEN LET g1 == GCD(Abs(x[1]), y[2])
             g2 == GCD(Abs(y[1]), x[2])
         IN  Fl(Norm((x[1] \div g1) * (y[1] \div g2),
                     (x[2] \div g2) * (y[2] \div g1)))
    ELSE \* NaN * y = NaN, Inf * 0 = NaN, otherwise Inf with the product's sign
         <<Sign(x[1]) * Sign(y[1]), 0>>

\* x + y on doubles
Add(x, y) ==
    IF IsFinite(x) /\ IsFinite(y)
    THEN LET g == GCD(x[2], y[2])
         IN  Fl(Norm(x[1] * (y[2] \div g) + y[1] * (x[2] \div g),
                     (x[2] \div g) * y[2]))
    ELSE IF IsNaN(x) \/ IsNaN(y) THEN NaN
    ELSE IF IsFinite(y) THEN x
    ELSE IF IsFinite(x) THEN y
    ELSE IF x = y THEN x
    ELSE NaN  \* Inf + (-Inf)

Neg(x) == <<-x[1], x[2]>>

\* x - y on doubles
Sub(x, y) == Add(x, Neg(y))

\* x / y on doubles, y = float of an int (finite; a zero divisor is +0.0)
Div(x, y) ==
    IF IsNaN(x) THEN NaN
    ELSE IF ~IsFinite(x) THEN (IF y[1] < 0 THEN Neg(x) ELSE x)
    ELSE IF y[1] = 0 THEN <<Sign(x[1]), 0>>
    ELSE Fl(Norm(x[1] * y[2], x[2] * y[1]))

\* x <= y on doubles (False when either is NaN)
Leq(x, y) ==
    IF IsNaN(x) \/ IsNaN(y) THEN FALSE
    ELSE IF x = y THEN TRUE
    ELSE IF x = NegInf \/ y = PosInf THEN TRUE
    ELSE IF x = PosInf \/ y = NegInf THEN FALSE
    ELSE x[1] * y[2] <= y[1] * x[2]

--------------------------------------------------------------------------
\* Inputs

\* Rates drawn for beta, beta_before, beta_after and gamma: 0, 1/2, 1, 2
Rates == {<<0, 1>>, <<1, 2>>, <<1, 1>>, <<2, 1>>}

\* The parameter records drawn.  The functions validate nothing, so records
\* outside the data model (N = 0, I0 > N, timesteps < 1, ...) are drawn too.
ParamSets ==
    [N : 0..MaxN, I0 : 0..MaxN, R0 : 0..MaxN,
     beta : Rates, beta_before : Rates, beta_after : Rates,
     intervention_time : -1..MaxT, gamma : Rates,
     timesteps : -1..MaxT]

\* A parameter record valid per the data model
Valid(p) ==
    /\ p.N > 0
    /\ 0 <= p.I0 /\ p.I0 <= p.N
    /\ 0 <= p.R0 /\ p.R0 <= p.N
    /\ \A r \in {p.beta, p.beta_before, p.beta_after, p.gamma} : Leq(Zero, r)
    /\ p.timesteps >= 1

--------------------------------------------------------------------------
\* numpy / pandas helpers

\* np.zeros(n) for n >= 0, indexed from 0
NpZeros(n) == [i \in 0..(n - 1) |-> Zero]

\* range(a, b) as a column, indexed from 0
PyRange(a, b) == [i \in 0..(b - a - 1) |-> a + i]

\* pd.DataFrame({'time': ..., 'susceptible': S, 'infectious': I, 'recovered': R})
DataFrame(time, S, I, R) ==
    [time |-> time, susceptible |-> S, infectious |-> I, recovered |-> R]

\* A call that has not started
NotCalled ==
    [pc |-> "call", t |-> 0, S |-> <<>>, I |-> <<>>, R |-> <<>>,
     result |-> <<>>, err |-> ""]

\* Mutant of EnterCall: the derived susceptible value is clamped at 0
EnterCallClamped(c, p) ==
    IF p.timesteps < 0 THEN [c EXCEPT !.pc = "raised", !.err = "ValueError"]
    ELSE IF p.timesteps = 0
    THEN [c EXCEPT !.pc = "raised", !.err = "IndexError",
                   !.S = NpZeros(0), !.I = NpZeros(0), !.R = NpZeros(0)]
    ELSE LET d == p.N - p.I0 - p.R0
             S0 == IF d < 0 THEN 0 ELSE d
         IN  [c EXCEPT !.pc = "loop", !.t = 0,
                       !.S = [NpZeros(p.timesteps) EXCEPT ![0] = FromInt(S0)],
                       !.I = [NpZeros(p.timesteps) EXCEPT ![0] = FromInt(p.I0)],
                       !.R = [NpZeros(p.timesteps) EXCEPT ![0] = FromInt(p.R0)]]

\* Mutant of EnterCall: a length below 1 gives empty arrays and the initial
\* state is written only when there is room for it
EnterCallGuarded(c, p) ==
    IF p.timesteps < 1
    THEN [c EXCEPT !.pc = "loop", !.t = 0,
                   !.S = NpZeros(0), !.I = NpZeros(0), !.R = NpZeros(0)]
    ELSE LET S0 == p.N - p.I0 - p.R0
         IN  [c EXCEPT !.pc = "loop", !.t = 0,
                       !.S = [NpZeros(p.timesteps) EXCEPT ![0] = FromInt(S0)],
                       !.I = [NpZeros(p.timesteps) EXCEPT ![0] = FromInt(p.I0)],
                       !.R = [NpZeros(p.timesteps) EXCEPT ![0] = FromInt(p.R0)]]

\* Lines 33-41 / 92-100: S0, the three arrays and the initial state.
\* np.zeros raises ValueError for a negative length; S[0] = S0 raises
\* IndexError on an array of length 0.
EnterCall(c, p) ==
    IF p.timesteps < 0 THEN [c EXCEPT !.pc = "raised", !.err = "ValueError"]
    ELSE IF p.timesteps = 0
    THEN [c EXCEPT !.pc = "raised", !.err = "IndexError",
                   !.S = NpZeros(0), !.I = NpZeros(0), !.R = NpZeros(0)]
    ELSE LET S0 == p.N - p.I0 - p.R0
         IN  [c EXCEPT !.pc = "loop", !.t = 0,
                       !.S = [NpZeros(p.timesteps) EXCEPT ![0] = FromInt(S0)],
                       !.I = [NpZeros(p.timesteps) EXCEPT ![0] = FromInt(p.I0)],
                       !.R = [NpZeros(p.timesteps) EXCEPT ![0] = FromInt(p.R0)]]

\* Mutant of NewInfections: the product is not divided by the population
NewInfectionsNoPopulation(b, S, I, N, t) == Mul(Mul(b, S[t]), I[t])

\* Mutant of NewInfections: a zero population is silently guarded
NewInfectionsGuarded(b, S, I, N, t) ==
    IF N = 0 THEN Zero ELSE Div(Mul(Mul(b, S[t]), I[t]), FromInt(N))

\* new_infections = beta * S[t] * I[t] / N
NewInfections(b, S, I, N, t) == Div(Mul(Mul(b, S[t]), I[t]), FromInt(N))

\* new_recoveries = gamma * I[t]
NewRecoveries(g, I, t) == Mul(g, I[t])

\* Mutant of EulerStep: the recoveries are not taken out of infectious
EulerStepLeak(c, b, p) ==
    LET t == c.t
        new_infections == NewInfections(b, c.S, c.I, p.N, t)
        new_recoveries == NewRecoveries(p.gamma, c.I, t)
    IN  [c EXCEPT !.S[t + 1] = Sub(c.S[t], new_infections),
                  !.I[t + 1] = Add(c.I[t], new_infections),
                  !.R[t + 1] = Add(c.R[t], new_recoveries),
                  !.t = t + 1]

\* Mutant of EulerStep: the recoveries are subtracted from recovered
EulerStepRecoveredLoss(c, b, p) ==
    LET t == c.t
        new_infections == NewInfections(b, c.S, c.I, p.N, t)
        new_recoveries == NewRecoveries(p.gamma, c.I, t)
    IN  [c EXCEPT !.S[t + 1] = Sub(c.S[t], new_infections),
                  !.I[t + 1] = Sub(Add(c.I[t], new_infections), new_recoveries),
                  !.R[t + 1] = Sub(c.R[t], new_recoveries),
                  !.t = t + 1]

\* One iteration of the loop body with transmission rate b (lines 45-50 / 107-112)
EulerStep(c, b, p) ==
    LET t == c.t
        new_infections == NewInfections(b, c.S, c.I, p.N, t)
        new_recoveries == NewRecoveries(p.gamma, c.I, t)
    IN  [c EXCEPT !.S[t + 1] = Sub(c.S[t], new_infections),
                  !.I[t + 1] = Sub(Add(c.I[t], new_infections), new_recoveries),
                  !.R[t + 1] = Add(c.R[t], new_recoveries),
                  !.t = t + 1]

\* Mutant of CurrentBeta: the two rates are swapped
CurrentBetaSwapped(p, t) ==
    IF t < p.intervention_time THEN p.beta_after ELSE p.beta_before

\* Mutant of CurrentBeta: beta_after is applied as a factor on beta_before
CurrentBetaScaled(p, t) ==
    IF t < p.intervention_time THEN p.beta_before
    ELSE Mul(p.beta_before, p.beta_after)

\* Mutant of CurrentBeta: the step at intervention_time still uses beta_before
CurrentBetaInclusive(p, t) ==
    IF t <= p.intervention_time THEN p.beta_before ELSE p.beta_after

\* current_beta = beta_before if t < intervention_time else beta_after
CurrentBeta(p, t) == IF t < p.intervention_time THEN p.beta_before ELSE p.beta_after

\* Mutant of BuildResult: the time column is range(0, timesteps)
BuildResultZeroBased(c, p) ==
    [c EXCEPT !.pc = "returned",
              !.result = DataFrame(PyRange(0, p.timesteps), c.S, c.I, c.R)]

\* Lines 53-60 / 115-122: the returned DataFrame
BuildResult(c, p) ==
    [c EXCEPT !.pc = "returned",
              !.result = DataFrame(PyRange(1, p.timesteps + 1), c.S, c.I, c.R)]

--------------------------------------------------------------------------
\* Dashboard (src/dashboard.py)

\* params = {...} of the "Basic SIR Model" branch
SirDict(p) ==
    [population |-> p.N, initial_infected |-> p.I0,
     initial_recovered |-> p.R0, beta |-> p.beta, gamma |-> p.gamma,
     timesteps |-> p.timesteps]

\* params = {...} of the "Intervention Model" branch: beta_before is beta
InterventionDict(p) ==
    [population |-> p.N, initial_infected |-> p.I0,
     initial_recovered |-> p.R0, beta_before |-> p.beta,
     beta_after |-> p.beta_after, intervention_time |-> p.intervention_time,
     gamma |-> p.gamma, timesteps |-> p.timesteps]

\* The keyword arguments run_sir_model passes to sir_model_py
SirKwargs(d) ==
    [N |-> d.population, I0 |-> d.initial_infected, R0 |-> d.initial_recovered,
     beta |-> d.beta, gamma |-> d.gamma, timesteps |-> d.timesteps]

\* The keyword arguments run_intervention_model passes to
\* simulate_intervention_py
InterventionKwargs(d) ==
    [N |-> d.population, I0 |-> d.initial_infected, R0 |-> d.initial_recovered,
     beta_before |-> d.beta_before, beta_after |-> d.beta_after,
     intervention_time |-> d.intervention_time, gamma |-> d.gamma,
     timesteps |-> d.timesteps]

\* sir_model_py(**k) run to its end from call state c
RECURSIVE SirModelPy(_, _)
SirModelPy(c, k) ==
    IF c.pc = "call" THEN SirModelPy(EnterCall(c, k), k)
    ELSE IF c.pc = "loop"
    THEN IF c.t < k.timesteps - 1
         THEN SirModelPy(EulerStep(c, k.beta, k), k)
         ELSE BuildResult(c, k)
    ELSE c

\* simulate_intervention_py(**k) run to its end from call state c
RECURSIVE SimulateInterventionPy(_, _)
SimulateInterventionPy(c, k) ==
    IF c.pc = "call" THEN SimulateInterventionPy(EnterCall(c, k), k)
    ELSE IF c.pc = "loop"
    THEN IF c.t < k.timesteps - 1
         THEN SimulateInterventionPy(EulerStep(c, CurrentBeta(k, c.t), k), k)
         ELSE BuildResult(c, k)
    ELSE c

\* What subprocess.run(['Rscript', '--version']) can do in is_r_available:
\* exit 0, exit with another code, or raise FileNotFoundError
Probes == {"exit 0", "exit nonzero", "FileNotFoundError"}

\* is_r_available()
IsRAvailable(probe) == probe = "exit 0"

\* How the try block of the R path can end: it returns the data frame read
\* back, or raises because Rscript is missing, because the script exits with
\* an error (check=True), or because the result file cannot be read
RPathOutcomes == {"ok", "FileNotFoundError", "CalledProcessError", "ReadError"}

\* The data frame pd.read_csv returns after a successful R run
RDataFrame == [source |-> "Rscript"]

\* A dashboard call that has not started; PYTHON_MODEL_AVAILABLE is set by
\* the import at the top of the script
DashNotRun(available) ==
    [pc |-> "idle", fn |-> "", PYTHON_MODEL_AVAILABLE |-> available,
     probe |-> "", rpath |-> "", result |-> <<>>, err |-> ""]

\* The call returns what the Python core returns, or raises what it raises
FromPythonCore(d, core) ==
    IF core.pc = "returned"
    THEN [d EXCEPT !.pc = "returned", !.result = core.result]
    ELSE [d EXCEPT !.pc = "raised", !.err = core.err]

\* Mutant of Delegate: the except branch reports the error and re-raises it
\* whether or not the Python core was imported
DelegateNoFallback(d, fn, probe, rpath, core) ==
    LET e == [d EXCEPT !.fn = fn, !.probe = probe, !.rpath = rpath]
    IN  IF ~IsRAvailable(probe) /\ d.PYTHON_MODEL_AVAILABLE
        THEN FromPythonCore(e, core)
        ELSE IF rpath = "ok"
        THEN [e EXCEPT !.pc = "returned", !.result = RDataFrame]
        ELSE [e EXCEPT !.pc = "raised", !.err = rpath]

\* The body shared by run_sir_model and run_intervention_model: the Python
\* core at once when R is not detected and the core was imported; otherwise
\* the R path, and in its except branch the Python core when it was
\* imported, the exception again when it was not
Delegate(d, fn, probe, rpath, core) ==
    LET e == [d EXCEPT !.fn = fn, !.probe = probe, !.rpath = rpath]
    IN  IF ~IsRAvailable(probe) /\ d.PYTHON_MODEL_AVAILABLE
        THEN FromPythonCore(e, core)
        ELSE IF rpath = "ok"
        THEN [e EXCEPT !.pc = "returned", !.result = RDataFrame]
        ELSE IF d.PYTHON_MODEL_AVAILABLE
        THEN FromPythonCore(e, core)
        ELSE [e EXCEPT !.pc = "raised", !.err = rpath]

--------------------------------------------------------------------------
\* State

VARIABLES params, sir, intv, dash

vars == <<params, sir, intv, arith, dash>>

Finished(c) == c.pc \in {"returned", "raised"}

Init ==
    /\ arith = "exact"
    /\ dash = DashNotRun(TRUE)
    /\ params \in ParamSets
    /\ sir = NotCalled
    /\ intv = NotCalled

\* sir_model(...) is entered
SirCall ==
    /\ sir.pc = "call"
    /\ sir' = EnterCall(sir, params)
    /\ UNCHANGED <<params, intv, arith, dash>>

\* for t in range(timesteps-1): one iteration
SirStep ==
    /\ sir.pc = "loop"
    /\ sir.t < params.timesteps - 1
    /\ sir' = EulerStep(sir, params.beta, params)
    /\ UNCHANGED <<params, intv, arith, dash>>

\* the loop is exhausted: build the DataFrame and return it
SirReturn ==
    /\ sir.pc = "loop"
    /\ ~(sir.t < params.timesteps - 1)
    /\ sir' = BuildResult(sir, params)
    /\ UNCHANGED <<params, intv, arith, dash>>

\* simulate_intervention(...) is entered
IntCall ==
    /\ Finished(sir)
    /\ intv.pc = "call"
    /\ intv' = EnterCall(intv, params)
    /\ UNCHANGED <<params, sir, arith, dash>>

\* for t in range(timesteps-1): one iteration
IntStep ==
    /\ intv.pc = "loop"
    /\ intv.t < params.timesteps - 1
    /\ intv' = EulerStep(intv, CurrentBeta(params, intv.t), params)
    /\ UNCHANGED <<params, sir, arith, dash>>

\* the loop is exhausted: build the DataFrame and return it
IntReturn ==
    /\ intv.pc = "loop"
    /\ ~(intv.t < params.timesteps - 1)
    /\ intv' = BuildResult(intv, params)
    /\ UNCHANGED <<params, sir, arith, dash>>

Next ==
    \/ SirCall
    \/ SirStep
    \/ SirReturn
    \/ IntCall
    \/ IntStep
    \/ IntReturn

Spec == Init /\ [][Next]_vars

\* Records in the reference caller's range, scaled down: N > 0, I0 and R0
\* non-negative with I0 + R0 <= N, the four rates in [0, 1], timesteps >= 1
CallerRange(p) ==
    /\ p.N > 0 /\ p.I0 >= 0 /\ p.R0 >= 0 /\ p.I0 + p.R0 <= p.N
    /\ \A r \in {p.beta, p.beta_before, p.beta_after, p.gamma} :
           Leq(Zero, r) /\ Leq(r, FromInt(1))
    /\ p.timesteps >= 1

FloatParamSets ==
    {p \in [N : 1..FloatMaxN, I0 : 0..FloatMaxN, R0 : 0..FloatMaxN,
            beta : Rates, beta_before : Rates, beta_after : Rates,
            intervention_time : 0..FloatMaxT, gamma : Rates,
            timesteps : 1..FloatMaxT] : CallerRange(p)}

\* The same two calls, computed as the arrays store them
InitFloat ==
    /\ arith = "rounded"
    /\ dash = DashNotRun(TRUE)
    /\ params \in FloatParamSets
    /\ sir = NotCalled
    /\ intv = NotCalled

SpecFloat == InitFloat /\ [][Next]_vars

\* The records the script can pass on: the sliders give N >= 1, I0 >= 1,
\* R0 >= 0, rates in [0, 1], an intervention day in 1..timesteps-1, and
\* beta_before is beta.  gamma = 0 never gets as far as a run: the script
\* computes beta/gamma first, and that raises ZeroDivisionError.
DashParamSets ==
    {p \in [N : 1..MaxN, I0 : 1..MaxN, R0 : 0..MaxN,
            beta : Rates, beta_before : Rates, beta_after : Rates,
            intervention_time : 1..MaxT, gamma : Rates,
            timesteps : 2..MaxT] :
        /\ \A r \in {p.beta, p.beta_after, p.gamma} : Leq(r, FromInt(1))
        /\ p.gamma # Zero
        /\ p.beta_before = p.beta
        /\ p.intervention_time <= p.timesteps - 1}

InitDash ==
    /\ arith = "exact"
    /\ params \in DashParamSets
    /\ sir = NotCalled
    /\ intv = NotCalled
    /\ \E available \in BOOLEAN : dash = DashNotRun(available)

\* run_sir_model(params), from its call to its return or raise
RunSirModel ==
    /\ dash.pc = "idle"
    /\ \E probe \in Probes, rpath \in RPathOutcomes :
           dash' = Delegate(dash, "run_sir_model", probe, rpath,
                            SirModelPy(NotCalled, SirKwargs(SirDict(params))))
    /\ UNCHANGED <<params, sir, intv, arith>>

\* run_intervention_model(params), from its call to its return or raise
RunInterventionModel ==
    /\ dash.pc = "idle"
    /\ \E probe \in Probes, rpath \in RPathOutcomes :
           dash' = Delegate(dash, "run_intervention_model", probe, rpath,
                            SimulateInterventionPy(NotCalled,
                                InterventionKwargs(InterventionDict(params))))
    /\ UNCHANGED <<params, sir, intv, arith>>

NextDash ==
    \/ Next
    \/ RunSirModel
    \/ RunInterventionModel

SpecDash == InitDash /\ [][NextDash]_vars

--------------------------------------------------------------------------
\* Shared vocabulary of the properties

Calls == {sir, intv}

Returned(c) == c.pc = "returned"

\* The internal indices of a returned series
Indices == 0..(params.timesteps - 1)

\* The internal steps of a run: t = 0 .. timesteps-2
Steps == 0..(params.timesteps - 2)

\* susceptible + infectious + recovered at internal index k
Total(S, I, R, k) == Add(Add(S[k], I[k]), R[k])

\* The record at index k of series r follows from the record at index k-1 by
\* one forward-Euler step of size 1 with transmission rate b, unclamped.
EulerRecurrence(r, b, t) ==
    LET newInfections ==
            Div(Mul(Mul(b, r.susceptible[t]), r.infectious[t]), FromInt(params.N))
        newRecoveries == Mul(params.gamma, r.infectious[t])
    IN  /\ r.susceptible[t + 1] = Sub(r.susceptible[t], newInfections)
        /\ r.infectious[t + 1] =
               Sub(Add(r.infectious[t], newInfections), newRecoveries)
        /\ r.recovered[t + 1] = Add(r.recovered[t], newRecoveries)

\* Some flow happens in the first step: people to infect, infect and recover
Epidemic ==
    /\ params.N > 0 /\ params.I0 > 0 /\ params.I0 + params.R0 < params.N
    /\ params.gamma # Zero

--------------------------------------------------------------------------
\* C1  Conservation: for every valid parameter record, the initial state of
\* both functions sums to the population, every loop step keeps the sum, and
\* so at every index of both returned series
\* susceptible + infectious + recovered = population.
C1_Conservation ==
    Valid(params) =>
        \A c \in Calls :
            /\ c.pc = "loop" =>
                   \A k \in 0..c.t : Total(c.S, c.I, c.R, k) = FromInt(params.N)
            /\ Returned(c) =>
                   \A k \in Indices :
                       Total(c.result.susceptible, c.result.infectious,
                             c.result.recovered, k) = FromInt(params.N)

\* Both series returned after MaxT-1 steps of an epidemic with fractional flows
C1_Witness ==
    /\ Valid(params) /\ Epidemic
    /\ params.timesteps = MaxT
    /\ params.beta = <<1, 2>> /\ params.beta_before = <<1, 2>>
    /\ Returned(sir) /\ Returned(intv)
    /\ sir.result.infectious[1] # sir.result.infectious[0]

\* C2  sir_model performs exactly timesteps-1 loop steps, and each record of
\* its series follows from the one before by the forward-Euler recurrence
\* with rate beta, with no clamping.
C2_EulerRecurrence ==
    Returned(sir) =>
        /\ sir.t = params.timesteps - 1
        /\ \A t \in Steps : EulerRecurrence(sir.result, params.beta, t)

\* A returned series of three records in which a compartment went negative
C2_Witness ==
    /\ Returned(sir)
    /\ params.timesteps = 3
    /\ params.N > 0 /\ params.beta # Zero
    /\ \E k \in Indices :
           /\ IsFinite(sir.result.infectious[k])
           /\ sir.result.infectious[k][1] < 0

\* C3  simulate_intervention follows the same recurrence with rate
\* beta_before for the steps t < intervention_time and beta_after for the
\* others; its initial record, its number of steps and its time labels are
\* those of sir_model.
C3_InterventionRecurrence ==
    Returned(intv) =>
        /\ intv.t = params.timesteps - 1
        /\ \A t \in Steps :
               EulerRecurrence(intv.result,
                               IF t < params.intervention_time
                               THEN params.beta_before ELSE params.beta_after,
                               t)
        /\ Returned(sir)
        /\ intv.result.time = sir.result.time
        /\ intv.result.susceptible[0] = sir.result.susceptible[0]
        /\ intv.result.infectious[0] = sir.result.infectious[0]
        /\ intv.result.recovered[0] = sir.result.recovered[0]

\* A returned run whose rate switches between its first and second step
C3_Witness ==
    /\ Returned(intv) /\ Epidemic
    /\ params.timesteps = 3 /\ params.intervention_time = 1
    /\ params.beta_before # params.beta_after
    /\ intv.result.susceptible[2] # intv.result.susceptible[1]

\* C4  No-intervention equivalence: with beta_before = beta_after = beta,
\* whatever the intervention time, both calls end the same way and the two
\* returned series are equal in every column at every index.
C4_NoInterventionEquivalence ==
    (/\ params.beta_before = params.beta
     /\ params.beta_after = params.beta
     /\ Finished(sir) /\ Finished(intv)) =>
        /\ sir.pc = intv.pc
        /\ sir.err = intv.err
        /\ sir.result = intv.result

\* Equal rates, the nominal switch strictly inside the run, both returned
C4_Witness ==
    /\ params.beta_before = params.beta /\ params.beta_after = params.beta
    /\ params.beta # Zero /\ Epidemic
    /\ params.timesteps = 3 /\ params.intervention_time = 1
    /\ Returned(sir) /\ Returned(intv)
    /\ sir.result.susceptible[2] # sir.result.susceptible[0]

\* C5  Boundary intervention: with intervention_time <= 0 the returned series
\* is the sir_model series for beta = beta_after; with
\* intervention_time >= timesteps-1 it is the sir_model series for
\* beta = beta_before.
C5_BoundaryIntervention ==
    (Returned(sir) /\ Returned(intv)) =>
        /\ (params.intervention_time <= 0 /\ params.beta = params.beta_after)
               => intv.result = sir.result
        /\ (/\ params.intervention_time >= params.timesteps - 1
            /\ params.beta = params.beta_before)
               => intv.result = sir.result

\* Both boundaries with different rates on the two sides: the switch at 0 and
\* the switch at timesteps-1 (a state for each is reachable; this one is the
\* switch at 0)
C5_Witness ==
    /\ Returned(sir) /\ Returned(intv) /\ Epidemic
    /\ params.timesteps = 3
    /\ params.intervention_time = 0
    /\ params.beta = params.beta_after
    /\ params.beta_before # params.beta_after
    /\ sir.result.susceptible[2] # sir.result.susceptible[0]

\* The switch at timesteps-1: every step used beta_before
C5_WitnessLate ==
    /\ Returned(sir) /\ Returned(intv) /\ Epidemic
    /\ params.timesteps = 3
    /\ params.intervention_time = 2
    /\ params.beta = params.beta_before
    /\ params.beta_before # params.beta_after
    /\ sir.result.susceptible[2] # sir.result.susceptible[0]

\* C6  Monotonic time: for timesteps >= 1 neither call fails, and each returns
\* exactly timesteps records, the record at internal index k labelled
\* time = k + 1, so the labels are 1, 2, ..., timesteps in order.
C6_MonotonicTime ==
    \A c \in Calls :
        /\ params.timesteps >= 1 => c.pc # "raised"
        /\ Returned(c) =>
               /\ DOMAIN c.result.time = Indices
               /\ DOMAIN c.result.susceptible = Indices
               /\ DOMAIN c.result.infectious = Indices
               /\ DOMAIN c.result.recovered = Indices
               /\ Cardinality(DOMAIN c.result.time) = params.timesteps
               /\ \A k \in Indices : c.result.time[k] = k + 1

\* Both series returned with MaxT records
C6_Witness ==
    /\ params.timesteps = MaxT
    /\ Returned(sir) /\ Returned(intv)
    /\ sir.result.time[MaxT - 1] = MaxT

\* C7  Initial condition: the first record of both returned series is
\* susceptible = N - I0 - R0, infectious = I0, recovered = R0, also when
\* N - I0 - R0 is negative.
C7_InitialCondition ==
    \A c \in Calls :
        Returned(c) =>
            /\ c.result.susceptible[0] = FromInt(params.N - params.I0 - params.R0)
            /\ c.result.infectious[0] = FromInt(params.I0)
            /\ c.result.recovered[0] = FromInt(params.R0)

\* Both series returned from a record whose derived susceptible is negative
C7_Witness ==
    /\ params.N - params.I0 - params.R0 < 0
    /\ params.N > 0 /\ params.timesteps = 3
    /\ Returned(sir) /\ Returned(intv)
    /\ sir.result.susceptible[0][1] < 0

\* C8 as stated: for every valid parameter record, recovered is
\* non-decreasing across every pair of consecutive records of both series.
C8_RecoveredMonotone ==
    Valid(params) =>
        \A c \in Calls :
            Returned(c) =>
                \A t \in Steps :
                    Leq(c.result.recovered[t], c.result.recovered[t + 1])

\* C8 amended: for every valid parameter record, recovered does not decrease
\* from a record whose infectious value is non-negative to the next record.
C8_RecoveredMonotoneWhileInfectiousNonNegative ==
    Valid(params) =>
        \A c \in Calls :
            Returned(c) =>
                \A t \in Steps :
                    Leq(Zero, c.result.infectious[t]) =>
                        Leq(c.result.recovered[t], c.result.recovered[t + 1])

\* A valid run whose recovered value grows over its second step
C8_Witness ==
    /\ Valid(params) /\ params.timesteps = 3
    /\ Returned(sir) /\ Returned(intv)
    /\ Leq(Zero, intv.result.infectious[1])
    /\ Leq(intv.result.recovered[1], intv.result.recovered[2])
    /\ intv.result.recovered[1] # intv.result.recovered[2]

\* C9  Invalid timesteps: with timesteps < 1 neither call ever reaches its
\* loop or returns; each ends by raising and leaves no series.
C9_InvalidTimesteps ==
    params.timesteps < 1 =>
        \A c \in Calls :
            /\ c.pc \in {"call", "raised"}
            /\ c.result = <<>>
            /\ c.pc = "raised" => c.err \in {"ValueError", "IndexError"}

\* Both calls have raised for timesteps = 0
C9_Witness ==
    /\ params.timesteps = 0
    /\ sir.pc = "raised" /\ intv.pc = "raised"
    /\ intv.err = "IndexError"

\* C10  Degenerate population: with N = 0 and timesteps >= 1 neither call
\* raises; the returned series has timesteps records, and susceptible and
\* infectious are non-finite in every record after the first (recovered from
\* the third record on).
C10_DegeneratePopulation ==
    params.N = 0 =>
        \A c \in Calls :
            /\ params.timesteps >= 1 => c.pc # "raised"
            /\ Returned(c) =>
                   /\ DOMAIN c.result.susceptible = Indices
                   /\ \A k \in 1..(params.timesteps - 1) :
                          /\ ~IsFinite(c.result.susceptible[k])
                          /\ ~IsFinite(c.result.infectious[k])
                          /\ k >= 2 => ~IsFinite(c.result.recovered[k])

\* N = 0 with infectious people: the first step divides a negative product by
\* zero, and the series is returned with the infinities in it
C10_Witness ==
    /\ params.N = 0 /\ params.I0 > 0 /\ params.timesteps = 3
    /\ Returned(sir) /\ Returned(intv)
    /\ intv.result.susceptible[1] = PosInf
    /\ intv.result.infectious[1] = NegInf
    /\ IsNaN(intv.result.infectious[2])

\* From step t on the series r has no new infections: susceptible is kept
\* and infectious becomes I[t] * (1 - gamma)
NoTransmissionStep(r, t) ==
    /\ r.susceptible[t + 1] = r.susceptible[t]
    /\ r.infectious[t + 1] = Mul(r.infectious[t], Sub(FromInt(1), params.gamma))

\* C11 as stated: whatever the population, with beta_after = 0 every step
\* t >= intervention_time of simulate_intervention keeps susceptible and
\* multiplies infectious by 1 - gamma; with beta = 0 sir_model keeps
\* susceptible at N - I0 - R0 in every record and multiplies infectious by
\* 1 - gamma in every step.
C11_ZeroTransmission ==
    /\ (Returned(intv) /\ params.beta_after = Zero) =>
           \A t \in Steps :
               t >= params.intervention_time => NoTransmissionStep(intv.result, t)
    /\ (Returned(sir) /\ params.beta = Zero) =>
           /\ \A k \in Indices :
                  sir.result.susceptible[k] =
                      FromInt(params.N - params.I0 - params.R0)
           /\ \A t \in Steps : NoTransmissionStep(sir.result, t)

\* C11 amended: the same for a population above 0 (with N = 0 the infection
\* term is 0 * S * I / 0 = NaN, not 0).
C11_ZeroTransmissionPositivePopulation ==
    params.N > 0 => C11_ZeroTransmission

\* An epidemic that spreads in its first step and is cut off by beta_after = 0
\* at step 1: susceptible moved once and then stayed
C11_Witness ==
    /\ Returned(intv) /\ Epidemic
    /\ params.timesteps = 3 /\ params.intervention_time = 1
    /\ params.beta_before # Zero /\ params.beta_after = Zero
    /\ intv.result.susceptible[1] # intv.result.susceptible[0]
    /\ intv.result.susceptible[2] = intv.result.susceptible[1]
    /\ intv.result.infectious[2] # intv.result.infectious[1]

\* Every value of a returned series lies in [0, N]
WithinPopulation(r) ==
    \A k \in Indices :
        \A v \in {r.susceptible[k], r.infectious[k], r.recovered[k]} :
            Leq(Zero, v) /\ Leq(v, FromInt(params.N))

PythonCoreCall == IF dash.fn = "run_sir_model" THEN sir ELSE intv

\* The R path failed: Rscript is missing or the probe fails, or the R run
\* raised
RPathFailed == ~IsRAvailable(dash.probe) \/ dash.rpath # "ok"

====
